---- MODULE Spec2Model ----
(***************************************************************************)
(* AQUAFace-Lite: the verification backend (models/face_verifier.py), the  *)
(* quality metrics (utils/quality_metrics.py) and the session state of the *)
(* Streamlit script (app.py).                                              *)
(*                                                                         *)
(* Floating-point values are modelled as exact rationals [n, d] in lowest  *)
(* terms (d = 0 is +inf, the value numpy gives for x / 0.0 with x > 0).    *)
(* An image is modelled by what the external collaborators read from it:   *)
(* the outcome of FaceAnalysis.get, the raw embedding of its largest face, *)
(* and the statistics of its gray-level buffer (Laplacian variance, mean,  *)
(* standard deviation), or the fact that cv2 rejects the buffer.           *)
(***************************************************************************)
EXTENDS Integers, Sequences, FiniteSets, TLC

\* ------------------------------------------------------------------ bounds
\* Laplacian variances enumerated: 600 * i, i \in 0 .. MaxLapIdx.
MaxLapIdx == 2
\* Mean gray levels enumerated: (255 * k) \div MeanSteps, k \in 0 .. MeanSteps.
MeanSteps == 3
\* Thresholds enumerated: k / ThreshSteps, k \in 0 .. ThreshSteps.
ThreshSteps == 2
\* Browser sessions the Streamlit process serves: 1 .. MaxSessions.
MaxSessions == 2

\* ------------------------------------------------------- program constants
\* laplacian_var / 1000.0
LaplacianNorm == 1000
\* brightness_raw / 255.0
MaxIntensity == 255

\* ------------------------------------------------------ float arithmetic
RECURSIVE GCD(_, _)
GCD(a, b) == IF b = 0 THEN a ELSE GCD(b, a % b)

Abs(x) == IF x < 0 THEN -x ELSE x

\* The float n / d, in lowest terms with d >= 0.
Rat(n, d) ==
    LET g == GCD(Abs(n), Abs(d))
        s == IF d < 0 THEN -1 ELSE 1
    IN  IF g = 0 THEN [n |-> 0, d |-> 1]
        ELSE [n |-> s * (n \div g), d |-> s * (d \div g)]

Zero == Rat(0, 1)
One == Rat(1, 1)
Half == Rat(1, 2)
Hundred == Rat(100, 1)

Mul(x, y) == Rat(x.n * y.n, x.d * y.d)
Add(x, y) == Rat(x.n * y.d + y.n * x.d, x.d * y.d)
\* numpy scalar division: x / 0.0 is +inf for x > 0 (a warning, no exception).
Div(x, y) == Rat(x.n * y.d, x.d * y.n)
\* x < y
Less(x, y) == x.n * y.d < y.n * x.d
\* Python min(x, y): x unless y < x.  Python max(x, y): x unless y > x.
Min(x, y) == IF Less(y, x) THEN y ELSE x
Max(x, y) == IF Less(x, y) THEN y ELSE x

\* ------------------------------------------------------------ the inputs
None == <<>>

\* face.embedding of the largest face, before normalisation (integer norms).
\* The last one has another length: the output of a different model.
RawEmbeddings == { <<10, 0, 0, 0>>, <<3, 9, 3, 1>>, <<-20, 0, 0, 0>>, <<3, 4>> }

LapVars == { 600 * i : i \in 0 .. MaxLapIdx }
Means == { (MaxIntensity * k) \div MeanSteps : k \in 0 .. MeanSteps }
\* gray.std(): a constant buffer, and one with a spread of 100 gray levels.
Stds == { 0, 100 }

\* Statistics an 8-bit gray buffer can have: std^2 <= mean * (255 - mean),
\* and a constant buffer (std = 0) has a Laplacian that is 0 everywhere.
GrayStats ==
    { g \in [lapVar : LapVars, mean : Means, std : Stds] :
        /\ g.std * g.std <= g.mean * (MaxIntensity - g.mean)
        /\ (g.std = 0 => g.lapVar = 0) }

NoGray == [lapVar |-> 0, mean |-> 0, std |-> 0]

\* faces: "ok" (at least one face), "none" (len(faces) == 0), "raise"
\* (self.app.get raises).  cvOk: cv2.cvtColor accepts the buffer.
Images ==
    { [faces |-> f.faces, embedding |-> f.embedding, cvOk |-> q.cvOk, gray |-> q.gray] :
        f \in { [faces |-> "ok", embedding |-> e] : e \in RawEmbeddings }
              \cup { [faces |-> x, embedding |-> None] : x \in {"none", "raise"} },
        q \in { [cvOk |-> TRUE, gray |-> g] : g \in GrayStats }
              \cup { [cvOk |-> FALSE, gray |-> NoGray] } }

Thresholds == { Rat(k, ThreshSteps) : k \in 0 .. ThreshSteps }

NoImage == [faces |-> "none", embedding |-> None, cvOk |-> FALSE, gray |-> NoGray]

\* ------------------------------------------------- AQUAFaceVerifier helpers
RECURSIVE SumSq(_)
SumSq(v) == IF v = <<>> THEN 0 ELSE Head(v) * Head(v) + SumSq(Tail(v))

\* np.linalg.norm of an integer vector whose norm is an integer.
Norm(v) == CHOOSE r \in 0 .. SumSq(v) : r * r = SumSq(v)

\* embedding / np.linalg.norm(embedding)
Normalize(v) == [i \in 1 .. Len(v) |-> Rat(v[i], Norm(v))]

\* extract_embedding: (embedding, face_detected); every exception is caught.
extract_embedding(img) ==
    IF img.faces = "ok"
    THEN [embedding |-> Normalize(img.embedding), detected |-> TRUE]
    ELSE [embedding |-> None, detected |-> FALSE]

\* A slip: the normalised variance without the clamp.
Sharpness_Unclamped(lapVar) == Rat(lapVar, LaplacianNorm)

\* sharpness = min(1.0, laplacian_var / 1000.0)
Sharpness(lapVar) == Min(One, Rat(lapVar, LaplacianNorm))

\* brightness = brightness_raw / 255.0
Brightness(mean) == Rat(mean, MaxIntensity)

\* A slip: the fallback of the except clause is (0.0, 0.0).
compute_image_quality_ZeroFallback(img) ==
    IF img.cvOk
    THEN [sharpness |-> Sharpness(img.gray.lapVar), brightness |-> Brightness(img.gray.mean)]
    ELSE [sharpness |-> Zero, brightness |-> Zero]

\* compute_image_quality: (sharpness, brightness), or (0.0, 0.5) on exception.
compute_image_quality(img) ==
    IF img.cvOk
    THEN [sharpness |-> Sharpness(img.gray.lapVar), brightness |-> Brightness(img.gray.mean)]
    ELSE [sharpness |-> Zero, brightness |-> Half]

\* np.dot of two 1-D arrays of the same length.
RECURSIVE Dot(_, _)
Dot(a, b) ==
    IF a = <<>> THEN Zero ELSE Add(Mul(Head(a), Head(b)), Dot(Tail(a), Tail(b)))

\* np.dot raises ValueError when the shapes are not aligned.
DotRaises(a, b) == Len(a) # Len(b)

\* ------------------------------------------------------- verify, the steps
\* "❌ No face detected in Image A" / "... Image B" / "... one or both images"
MsgNoFaceA == "No face detected in Image A"
MsgNoFaceB == "No face detected in Image B"
MsgNoFaces == "No faces detected in one or both images"
MsgException == "Error during verification"

\* The message chosen when emb_a is None or emb_b is None.
NoFaceMessage(a_detected, b_detected) ==
    IF ~a_detected THEN MsgNoFaceA
    ELSE IF ~b_detected THEN MsgNoFaceB
    ELSE MsgNoFaces

\* quality_a = sharp_a * bright_b
OverallA(sa, ba, sb, bb) == Mul(sa, bb)

\* A slip: the mean of sharpness and brightness instead of their product.
OverallB_Mean(sa, ba, sb, bb) == Mul(Half, Add(sb, bb))

\* quality_b = sharp_b * bright_b
OverallB(sa, ba, sb, bb) == Mul(sb, bb)

\* A slip: the better of the two qualities instead of the worse.
QualityWeighted_Max(baseline, qa, qb, weighting) ==
    IF weighting THEN Mul(baseline, Max(qa, qb)) ELSE baseline

\* A slip: the weighting applied whatever the flag says.
QualityWeighted_Always(baseline, qa, qb, weighting) == Mul(baseline, Min(qa, qb))

\* quality_weighted_sim: baseline_sim * min(quality_a, quality_b), or baseline_sim.
QualityWeighted(baseline, qa, qb, weighting) ==
    IF weighting THEN Mul(baseline, Min(qa, qb)) ELSE baseline

\* decision_score = quality_weighted_sim if use_quality_weighting else baseline_sim
DecisionScore(weighted, baseline, weighting) ==
    IF weighting THEN weighted ELSE baseline

\* A slip: >= instead of >.
Verdict_AtLeast(score, t) == ~Less(score, t)

\* results["verdict"] = decision_score > threshold
Verdict(score, t) == Less(t, score)

\* A slip: the confidence always taken from the baseline similarity.
Confidence_BaselineOnly(weighted, baseline, weighting, t) ==
    LET raw == IF Less(Zero, baseline) THEN Mul(Div(baseline, t), Hundred) ELSE Zero
    IN  Min(Hundred, Max(Zero, raw))

\* A slip: the score scaled to a percentage without the division by threshold.
Confidence_Unscaled(weighted, baseline, weighting, t) ==
    LET raw == IF weighting
               THEN (IF Less(Zero, weighted) THEN Mul(weighted, Hundred) ELSE Zero)
               ELSE (IF Less(Zero, baseline) THEN Mul(baseline, Hundred) ELSE Zero)
    IN  Min(Hundred, Max(Zero, raw))

\* confidence, clamped to 0-100.
Confidence(weighted, baseline, weighting, t) ==
    LET raw == IF weighting
               THEN (IF Less(Zero, weighted) THEN Mul(Div(weighted, t), Hundred) ELSE Zero)
               ELSE (IF Less(Zero, baseline) THEN Mul(Div(baseline, t), Hundred) ELSE Zero)
    IN  Min(Hundred, Max(Zero, raw))

\* A slip: no handler, the exception leaves verify.
OnException_Propagates == "raised"

\* Where an exception raised inside the try block of verify continues.
OnException == "except"

NoQuality == [overall |-> Zero, sharpness |-> Zero, brightness |-> Zero, face_detected |-> FALSE]

\* The results dict as verify creates it.
InitResults ==
    [ error |-> FALSE, error_message |-> "", verdict |-> FALSE, confidence |-> Zero,
      baseline_similarity |-> Zero, quality_weighted_similarity |-> Zero,
      quality_a |-> NoQuality, quality_b |-> NoQuality ]

NoMetrics == [sharpness |-> Zero, brightness |-> Zero, contrast |-> Zero, overall_quality |-> Zero]

\* compute_quality_metrics of utils/quality_metrics.py.
compute_quality_metrics(img) ==
    IF img.cvOk
    THEN LET sharpness == Min(One, Rat(img.gray.lapVar, LaplacianNorm))
             brightness == Rat(img.gray.mean, MaxIntensity)
             contrast == Rat(img.gray.std, MaxIntensity)
             quality_score == Add(Add(Mul(sharpness, Rat(5, 10)), Mul(brightness, Rat(3, 10))),
                                  Mul(contrast, Rat(2, 10)))
         IN  [ sharpness |-> sharpness, brightness |-> brightness, contrast |-> contrast,
               overall_quality |-> Min(One, Max(Zero, quality_score)) ]
    ELSE [sharpness |-> Zero, brightness |-> Half, contrast |-> Zero, overall_quality |-> Zero]

VARIABLES
    pc,                     \* position: "idle", a step of verify, "done", "raised", "metrics"
    img_a_bgr, img_b_bgr, use_quality_weighting, threshold,   \* arguments of verify
    emb_a, face_a_detected, emb_b, face_b_detected,
    sharp_a, bright_a, sharp_b, bright_b,
    quality_a, quality_b,
    baseline_sim, quality_weighted_sim,
    results,                \* the dict verify returns
    metrics,                \* the dict compute_quality_metrics returned
    log                     \* the steps the current call of verify has executed

args == <<img_a_bgr, img_b_bgr, use_quality_weighting, threshold>>
embs == <<emb_a, face_a_detected, emb_b, face_b_detected>>
quals == <<sharp_a, bright_a, sharp_b, bright_b>>
overalls == <<quality_a, quality_b>>
sims == <<baseline_sim, quality_weighted_sim>>

\* The Streamlit process of app.py: st.session_state of each browser session.
VARIABLES
    session_verifier,       \* per session: is the key set, and which instance (0: None)
    session_results,        \* per session: is the key set, is a result stored, the result
    constructed,            \* AQUAFaceVerifier instances constructed by the process
    current                 \* the session whose script run is calling verify

app == <<session_verifier, session_results, constructed, current>>
vars == <<pc, args, embs, quals, overalls, sims, results, metrics, log, app>>

Sessions == 1 .. MaxSessions

\* The uploads of the sessions: a sharp picture of a face, and one without a face.
AppImages ==
    { [faces |-> f.faces, embedding |-> f.embedding, cvOk |-> TRUE,
       gray |-> [lapVar |-> 600, mean |-> 85, std |-> 100]] :
        f \in { [faces |-> "ok", embedding |-> <<10, 0, 0, 0>>],
                [faces |-> "none", embedding |-> None] } }

\* "verifier" not in st.session_state / "results" not in st.session_state
NoVerifier == [present |-> FALSE, instance |-> 0]
NoResults == [present |-> FALSE, stored |-> FALSE, value |-> InitResults]

\* if "verifier" not in st.session_state: st.session_state.verifier = None
InitVerifierKey(v) == [v EXCEPT !.present = TRUE]

\* if "results" not in st.session_state: st.session_state.results = None
InitResultsKey(r) == [r EXCEPT !.present = TRUE]

Init ==
    /\ pc = "idle"
    /\ img_a_bgr = NoImage /\ img_b_bgr = NoImage
    /\ use_quality_weighting = TRUE /\ threshold = Zero
    /\ emb_a = None /\ face_a_detected = FALSE
    /\ emb_b = None /\ face_b_detected = FALSE
    /\ sharp_a = Zero /\ bright_a = Zero /\ sharp_b = Zero /\ bright_b = Zero
    /\ quality_a = Zero /\ quality_b = Zero
    /\ baseline_sim = Zero /\ quality_weighted_sim = Zero
    /\ results = InitResults
    /\ metrics = NoMetrics
    /\ log = <<>>
    /\ session_verifier = [s \in Sessions |-> NoVerifier]
    /\ session_results = [s \in Sessions |-> NoResults]
    /\ constructed = 0
    /\ current = 1

\* verify is called: lines 88-111.
Verify ==
    /\ pc = "idle"
    /\ \E a \in Images, b \in Images, w \in BOOLEAN, t \in Thresholds :
        /\ img_a_bgr' = a /\ img_b_bgr' = b
        /\ use_quality_weighting' = w /\ threshold' = t
    /\ results' = InitResults
    /\ log' = <<>>
    /\ pc' = "extract_a"
    /\ UNCHANGED <<embs, quals, overalls, sims, metrics>>
    /\ UNCHANGED app

\* A slip: image B is not attempted when image A has no face.
ExtractA_SkipB ==
    /\ pc = "extract_a"
    /\ emb_a' = extract_embedding(img_a_bgr).embedding
    /\ face_a_detected' = extract_embedding(img_a_bgr).detected
    /\ log' = Append(log, "extract_a")
    /\ pc' = IF face_a_detected' THEN "extract_b" ELSE "check"
    /\ UNCHANGED <<args, emb_b, face_b_detected, quals, overalls, sims, results, metrics>>
    /\ UNCHANGED app

\* emb_a, face_a_detected = self.extract_embedding(img_a_bgr)
ExtractA ==
    /\ pc = "extract_a"
    /\ emb_a' = extract_embedding(img_a_bgr).embedding
    /\ face_a_detected' = extract_embedding(img_a_bgr).detected
    /\ log' = Append(log, "extract_a")
    /\ pc' = "extract_b"
    /\ UNCHANGED <<args, emb_b, face_b_detected, quals, overalls, sims, results, metrics>>
    /\ UNCHANGED app

\* emb_b, face_b_detected = self.extract_embedding(img_b_bgr)
ExtractB ==
    /\ pc = "extract_b"
    /\ emb_b' = extract_embedding(img_b_bgr).embedding
    /\ face_b_detected' = extract_embedding(img_b_bgr).detected
    /\ log' = Append(log, "extract_b")
    /\ pc' = "check"
    /\ UNCHANGED <<args, emb_a, face_a_detected, quals, overalls, sims, results, metrics>>
    /\ UNCHANGED app

\* if emb_a is None or emb_b is None: ... return results
CheckFaces ==
    /\ pc = "check"
    /\ IF emb_a = None \/ emb_b = None
       THEN /\ results' = [results EXCEPT !.error = TRUE,
                              !.error_message = NoFaceMessage(face_a_detected, face_b_detected)]
            /\ pc' = "done"
       ELSE /\ results' = results
            /\ pc' = "quality_a"
    /\ log' = Append(log, "check")
    /\ UNCHANGED <<args, embs, quals, overalls, sims, metrics>>
    /\ UNCHANGED app

\* sharp_a, bright_a = self.compute_image_quality(img_a_bgr)
QualityA ==
    /\ pc = "quality_a"
    /\ sharp_a' = compute_image_quality(img_a_bgr).sharpness
    /\ bright_a' = compute_image_quality(img_a_bgr).brightness
    /\ log' = Append(log, "quality_a")
    /\ pc' = "quality_b"
    /\ UNCHANGED <<args, embs, sharp_b, bright_b, overalls, sims, results, metrics>>
    /\ UNCHANGED app

\* sharp_b, bright_b = self.compute_image_quality(img_b_bgr)
QualityB ==
    /\ pc = "quality_b"
    /\ sharp_b' = compute_image_quality(img_b_bgr).sharpness
    /\ bright_b' = compute_image_quality(img_b_bgr).brightness
    /\ log' = Append(log, "quality_b")
    /\ pc' = "store"
    /\ UNCHANGED <<args, embs, sharp_a, bright_a, overalls, sims, results, metrics>>
    /\ UNCHANGED app

\* Overall quality and results["quality_a"], results["quality_b"]: lines 133-149.
StoreQuality ==
    /\ pc = "store"
    /\ quality_a' = OverallA(sharp_a, bright_a, sharp_b, bright_b)
    /\ quality_b' = OverallB(sharp_a, bright_a, sharp_b, bright_b)
    /\ results' = [results EXCEPT
          !.quality_a = [overall |-> quality_a', sharpness |-> sharp_a,
                         brightness |-> bright_a, face_detected |-> TRUE],
          !.quality_b = [overall |-> quality_b', sharpness |-> sharp_b,
                         brightness |-> bright_b, face_detected |-> TRUE]]
    /\ log' = Append(log, "store")
    /\ pc' = "baseline"
    /\ UNCHANGED <<args, embs, quals, sims, metrics>>
    /\ UNCHANGED app

\* baseline_sim = np.dot(emb_a, emb_b); results["baseline_similarity"] = ...
Baseline ==
    /\ pc = "baseline"
    /\ IF DotRaises(emb_a, emb_b)
       THEN /\ pc' = OnException
            /\ UNCHANGED <<baseline_sim, results>>
       ELSE /\ baseline_sim' = Dot(emb_a, emb_b)
            /\ results' = [results EXCEPT !.baseline_similarity = baseline_sim']
            /\ pc' = "weight"
    /\ log' = Append(log, "baseline")
    /\ UNCHANGED <<args, embs, quals, overalls, quality_weighted_sim, metrics>>
    /\ UNCHANGED app

\* Quality-weighted similarity: lines 155-162.
Weighting ==
    /\ pc = "weight"
    /\ quality_weighted_sim' =
          QualityWeighted(baseline_sim, quality_a, quality_b, use_quality_weighting)
    /\ results' = [results EXCEPT !.quality_weighted_similarity = quality_weighted_sim']
    /\ log' = Append(log, "weight")
    /\ pc' = "decide"
    /\ UNCHANGED <<args, embs, quals, overalls, baseline_sim, metrics>>
    /\ UNCHANGED app

\* Decision: lines 164-166.
Decision ==
    /\ pc = "decide"
    /\ results' = [results EXCEPT !.verdict =
          Verdict(DecisionScore(quality_weighted_sim, baseline_sim, use_quality_weighting),
                  threshold)]
    /\ log' = Append(log, "decide")
    /\ pc' = "confidence"
    /\ UNCHANGED <<args, embs, quals, overalls, sims, metrics>>
    /\ UNCHANGED app

\* Confidence and return results: lines 168-177.
ConfidenceStep ==
    /\ pc = "confidence"
    /\ results' = [results EXCEPT !.confidence =
          Confidence(quality_weighted_sim, baseline_sim, use_quality_weighting, threshold)]
    /\ log' = Append(log, "confidence")
    /\ pc' = "done"
    /\ UNCHANGED <<args, embs, quals, overalls, sims, metrics>>
    /\ UNCHANGED app

\* except Exception as e: lines 179-182.
Except ==
    /\ pc = "except"
    /\ results' = [results EXCEPT !.error = TRUE, !.error_message = MsgException]
    /\ log' = Append(log, "except")
    /\ pc' = "done"
    /\ UNCHANGED <<args, embs, quals, overalls, sims, metrics>>
    /\ UNCHANGED app

\* The caller has the result; the locals of the call are gone.
Return ==
    /\ pc = "done"
    /\ pc' = "idle"
    /\ img_a_bgr' = NoImage /\ img_b_bgr' = NoImage
    /\ use_quality_weighting' = TRUE /\ threshold' = Zero
    /\ emb_a' = None /\ face_a_detected' = FALSE
    /\ emb_b' = None /\ face_b_detected' = FALSE
    /\ sharp_a' = Zero /\ bright_a' = Zero /\ sharp_b' = Zero /\ bright_b' = Zero
    /\ quality_a' = Zero /\ quality_b' = Zero
    /\ baseline_sim' = Zero /\ quality_weighted_sim' = Zero
    /\ results' = InitResults
    /\ metrics' = NoMetrics
    /\ log' = <<>>
    /\ UNCHANGED app

\* compute_quality_metrics(img_bgr) is called on an image.
ComputeQualityMetrics ==
    /\ pc = "idle"
    /\ \E img \in Images :
        /\ img_a_bgr' = img
        /\ metrics' = compute_quality_metrics(img)
    /\ pc' = "metrics"
    /\ UNCHANGED <<img_b_bgr, use_quality_weighting, threshold, embs, quals, overalls,
                   sims, results, log>>
    /\ UNCHANGED app

\* The metrics dict has been consumed.
MetricsReturn ==
    /\ pc = "metrics"
    /\ pc' = "idle"
    /\ img_a_bgr' = NoImage
    /\ metrics' = NoMetrics
    /\ UNCHANGED <<img_b_bgr, use_quality_weighting, threshold, embs, quals, overalls,
                   sims, results, log>>
    /\ UNCHANGED app

Next ==
    \/ Verify \/ ExtractA \/ ExtractB \/ CheckFaces
    \/ QualityA \/ QualityB \/ StoreQuality
    \/ Baseline \/ Weighting \/ Decision \/ ConfidenceStep
    \/ Except \/ Return
    \/ ComputeQualityMetrics \/ MetricsReturn

Spec == Init /\ [][Next]_vars

\* ------------------------------------------------- the Streamlit script, app.py
\* A script run of session s that does not reach the handler (the button was
\* not pressed, or an image is missing): the session state keys are set.
ScriptRun(s) ==
    /\ pc = "idle"
    /\ session_verifier' = [session_verifier EXCEPT ![s] = InitVerifierKey(@)]
    /\ session_results' = [session_results EXCEPT ![s] = InitResultsKey(@)]
    /\ UNCHANGED <<pc, args, embs, quals, overalls, sims, results, metrics, log,
                   constructed, current>>

\* Verify pressed in session s with both images uploaded: the verifier is
\* constructed if the session has none, and verify is called (lines 215-231).
PressVerify(s) ==
    /\ pc = "idle"
    /\ \E a \in AppImages, b \in AppImages, w \in BOOLEAN, t \in Thresholds :
        /\ img_a_bgr' = a /\ img_b_bgr' = b
        /\ use_quality_weighting' = w /\ threshold' = t
    /\ IF session_verifier[s].instance = 0
       THEN /\ constructed' = constructed + 1
            /\ session_verifier' = [session_verifier EXCEPT
                  ![s] = [present |-> TRUE, instance |-> constructed']]
       ELSE /\ constructed' = constructed
            /\ session_verifier' = [session_verifier EXCEPT ![s] = InitVerifierKey(@)]
    /\ session_results' = [session_results EXCEPT ![s] = InitResultsKey(@)]
    /\ current' = s
    /\ results' = InitResults
    /\ log' = <<>>
    /\ pc' = "extract_a"
    /\ UNCHANGED <<embs, quals, overalls, sims, metrics>>

\* Verify pressed in a session without a verifier, and AQUAFaceVerifier()
\* raises (neither provider can be prepared): the handler's except clause
\* (line 419) reports it; the session still has no verifier.
PressVerifyInitFails(s) ==
    /\ pc = "idle"
    /\ session_verifier[s].instance = 0
    /\ session_verifier' = [session_verifier EXCEPT ![s] = InitVerifierKey(@)]
    /\ session_results' = [session_results EXCEPT ![s] = InitResultsKey(@)]
    /\ UNCHANGED <<pc, args, embs, quals, overalls, sims, results, metrics, log,
                   constructed, current>>

\* verify has returned: st.session_state.results = results (line 233).
StoreResults ==
    /\ pc = "done"
    /\ session_results' = [session_results EXCEPT
          ![current] = [present |-> TRUE, stored |-> TRUE, value |-> results]]
    /\ pc' = "idle"
    /\ img_a_bgr' = NoImage /\ img_b_bgr' = NoImage
    /\ use_quality_weighting' = TRUE /\ threshold' = Zero
    /\ emb_a' = None /\ face_a_detected' = FALSE
    /\ emb_b' = None /\ face_b_detected' = FALSE
    /\ sharp_a' = Zero /\ bright_a' = Zero /\ sharp_b' = Zero /\ bright_b' = Zero
    /\ quality_a' = Zero /\ quality_b' = Zero
    /\ baseline_sim' = Zero /\ quality_weighted_sim' = Zero
    /\ results' = InitResults
    /\ log' = <<>>
    /\ current' = 1
    /\ UNCHANGED <<metrics, session_verifier, constructed>>

AppNext ==
    \/ \E s \in Sessions : ScriptRun(s)
    \/ \E s \in Sessions : PressVerify(s)
    \/ \E s \in Sessions : PressVerifyInitFails(s)
    \/ ExtractA \/ ExtractB \/ CheckFaces
    \/ QualityA \/ QualityB \/ StoreQuality
    \/ Baseline \/ Weighting \/ Decision \/ ConfidenceStep
    \/ StoreResults

\* The process serving its sessions, one script run at a time.
SpecApp == Init /\ [][AppNext]_vars

\* ---------------------------------------------------------------- claims
InCall == pc \notin {"idle", "metrics", "done"}
Returned == pc = "done"
Succeeded == pc = "done" /\ ~results.error

\* The decision score as the result record shows it.
ResultScore ==
    IF use_quality_weighting THEN results.quality_weighted_similarity
    ELSE results.baseline_similarity

Eq(x, y) == ~Less(x, y) /\ ~Less(y, x)
InUnit(x) == x.d > 0 /\ ~Less(x, Zero) /\ ~Less(One, x)
Clamp(x, lo, hi) == IF Less(x, lo) THEN lo ELSE IF Less(hi, x) THEN hi ELSE x

\* The positions of a running call, each the guard of one step of verify.
StepLabels ==
    { "extract_a", "extract_b", "check", "quality_a", "quality_b", "store",
      "baseline", "weight", "decide", "confidence", "except" }

\* C1: verify never raises: no exception leaves the call, a running call is
\* always at one of its steps and has executed fewer than 11 of them (each
\* statement runs at most once, so the call returns), and what it returns is
\* a result record whose error is a boolean.
C1_VerifyNeverRaises ==
    /\ pc # "raised"
    /\ (InCall => pc \in StepLabels /\ Len(log) < Cardinality(StepLabels))
    /\ (Returned => results.error \in BOOLEAN /\ DOMAIN results = DOMAIN InitResults)

\* An exception raised inside the try block (np.dot on embeddings of
\* different lengths) with threshold 0 ended in a returned error record.
C1_Witness ==
    /\ Returned /\ results.error /\ results.error_message = MsgException
    /\ Len(emb_a) # Len(emb_b) /\ threshold = Zero

\* C2: in every result without error, verdict is (decision_score > threshold),
\* strictly, the decision score being the weighted similarity when weighting
\* is on and the baseline similarity otherwise.
C2_VerdictIsStrictThreshold ==
    Succeeded => (results.verdict <=> Less(threshold, ResultScore))

\* A decision score equal to the threshold gave verdict false.
C2_Witness ==
    Succeeded /\ Eq(ResultScore, threshold) /\ Less(Zero, threshold) /\ ~results.verdict

\* C3: with weighting on and no error, quality_weighted_similarity is
\* baseline_similarity * min(quality_a.overall, quality_b.overall) of the
\* same result.
C3_WeightedIsBaselineTimesMin ==
    (Succeeded /\ use_quality_weighting) =>
        results.quality_weighted_similarity =
            Mul(results.baseline_similarity,
                Min(results.quality_a.overall, results.quality_b.overall))

\* Weighting on, two different non-zero qualities, a non-zero baseline.
C3_Witness ==
    /\ Succeeded /\ use_quality_weighting
    /\ Less(Zero, results.quality_a.overall)
    /\ Less(results.quality_a.overall, results.quality_b.overall)
    /\ results.baseline_similarity # Zero

\* C4: with weighting off and no error, quality_weighted_similarity equals
\* baseline_similarity, whatever the qualities.
C4_UnweightedIsBaseline ==
    (Succeeded /\ ~use_quality_weighting) =>
        results.quality_weighted_similarity = results.baseline_similarity

\* Weighting off, a non-zero baseline and a quality below 1 that would have
\* changed it.
C4_Witness ==
    /\ Succeeded /\ ~use_quality_weighting
    /\ results.baseline_similarity # Zero
    /\ Less(results.quality_a.overall, One)

\* C5: in every result without error and with threshold in (0,1], confidence
\* is clamp(decision_score / threshold * 100, 0, 100) when decision_score > 0
\* and 0 otherwise.
C5_ConfidenceMapping ==
    (Succeeded /\ Less(Zero, threshold)) =>
        results.confidence =
            IF Less(Zero, ResultScore)
            THEN Clamp(Mul(Div(ResultScore, threshold), Hundred), Zero, Hundred)
            ELSE Zero

\* Weighting off, baseline 0.3, threshold 0.5: verdict false, confidence 60.
C5_Witness ==
    /\ Succeeded /\ ~use_quality_weighting
    /\ results.baseline_similarity = Rat(3, 10) /\ threshold = Half
    /\ ~results.verdict /\ results.confidence = Rat(60, 1)

\* C6: when detection fails, the message tells the three cases apart: only A
\* failed, only B failed, both failed give three different messages.
C6_ThreeMessages ==
    /\ NoFaceMessage(FALSE, TRUE) # NoFaceMessage(TRUE, FALSE)
    /\ (Returned /\ ~face_a_detected /\ ~face_b_detected) =>
          /\ results.error_message # NoFaceMessage(FALSE, TRUE)
          /\ results.error_message # NoFaceMessage(TRUE, FALSE)

\* C7: a result with error = true still has every numeric field, the verdict
\* and both quality records at their initial values.
C7_ErrorCarriesDefaults ==
    (Returned /\ results.error) =>
        [results EXCEPT !.error = FALSE, !.error_message = ""] = InitResults

\* What verify reports as quality_a and quality_b for the pair (a, b).
ReportedQualityA(a, b) ==
    LET qa == compute_image_quality(a)
        qb == compute_image_quality(b)
    IN  [ overall |-> OverallA(qa.sharpness, qa.brightness, qb.sharpness, qb.brightness),
          sharpness |-> qa.sharpness, brightness |-> qa.brightness, face_detected |-> TRUE ]

ReportedQualityB(a, b) ==
    LET qa == compute_image_quality(a)
        qb == compute_image_quality(b)
    IN  [ overall |-> OverallB(qa.sharpness, qa.brightness, qb.sharpness, qb.brightness),
          sharpness |-> qb.sharpness, brightness |-> qb.brightness, face_detected |-> TRUE ]

\* C8: the quality reported for an image depends on that image alone: with
\* any other image in the other position, verify reports the same quality_a
\* for image A and the same quality_b for image B.
C8_QualityFromOwnImage ==
    Succeeded =>
        /\ results.quality_a = ReportedQualityA(img_a_bgr, img_b_bgr)
        /\ results.quality_b = ReportedQualityB(img_a_bgr, img_b_bgr)
        /\ \A other \in Images :
              /\ ReportedQualityA(img_a_bgr, other) = results.quality_a
              /\ ReportedQualityB(other, img_b_bgr) = results.quality_b

C10_QualityInUnitInterval ==
    /\ InUnit(metrics.sharpness) /\ InUnit(metrics.brightness)
    /\ InUnit(metrics.contrast) /\ InUnit(metrics.overall_quality)
    /\ InUnit(sharp_a) /\ InUnit(bright_a) /\ InUnit(sharp_b) /\ InUnit(bright_b)
    /\ \A q \in {results.quality_a, results.quality_b} :
          InUnit(q.sharpness) /\ InUnit(q.brightness) /\ InUnit(q.overall)

\* A Laplacian variance above 1000 was clamped to sharpness 1 in a result.
C10_Witness ==
    /\ Succeeded
    /\ img_a_bgr.gray.lapVar > LaplacianNorm
    /\ results.quality_a.sharpness = One
    /\ results.quality_a.overall # Zero

C12_BottleneckSuppression ==
    (Succeeded /\ use_quality_weighting
        /\ (results.quality_a.overall = Zero \/ results.quality_b.overall = Zero)) =>
        /\ results.quality_weighted_similarity = Zero
        /\ ~results.verdict
        /\ results.confidence = Zero

\* Baseline 1, threshold 0, image A of quality 0 and image B of good quality.
C12_Witness ==
    /\ Succeeded /\ use_quality_weighting
    /\ results.baseline_similarity = One /\ threshold = Zero
    /\ results.quality_a.overall = Zero /\ Less(Half, results.quality_b.overall)

\* The number of times step s appears in the log of the call.
Count(s) == Cardinality({ i \in 1 .. Len(log) : log[i] = s })

\* C13: a failed detection is terminal and nothing is retried: a call that has
\* returned has run extract_embedding exactly once on image A and exactly
\* once on image B, in that order, and when either found no face it has run
\* the check of the two embeddings and nothing else, and returned error = true.
C13_DetectionFailureIsTerminal ==
    Returned =>
        /\ Count("extract_a") = 1 /\ Count("extract_b") = 1
        /\ SubSeq(log, 1, 3) = <<"extract_a", "extract_b", "check">>
        /\ ((~face_a_detected \/ ~face_b_detected) =>
              /\ log = <<"extract_a", "extract_b", "check">>
              /\ results.error
              /\ results.error_message \in {MsgNoFaceA, MsgNoFaceB})
        /\ ((face_a_detected /\ face_b_detected) => Count("quality_a") = 1)

\* Image A has no face, image B has one and was attempted all the same.
C13_Witness ==
    /\ Returned /\ ~face_a_detected /\ face_b_detected /\ emb_b # None
    /\ results.error /\ Len(log) = 3

\* What verify returns for images a and b, weighting flag w and threshold t:
\* the statements of verify applied one after the other.
VerifyResult(a, b, w, t) ==
    LET ea == extract_embedding(a)
        eb == extract_embedding(b)
        qa == compute_image_quality(a)
        qb == compute_image_quality(b)
        oa == OverallA(qa.sharpness, qa.brightness, qb.sharpness, qb.brightness)
        ob == OverallB(qa.sharpness, qa.brightness, qb.sharpness, qb.brightness)
        stored == [InitResults EXCEPT
                     !.quality_a = [overall |-> oa, sharpness |-> qa.sharpness,
                                    brightness |-> qa.brightness, face_detected |-> TRUE],
                     !.quality_b = [overall |-> ob, sharpness |-> qb.sharpness,
                                    brightness |-> qb.brightness, face_detected |-> TRUE]]
        base == Dot(ea.embedding, eb.embedding)
        weighted == QualityWeighted(base, oa, ob, w)
    IN  IF ea.embedding = None \/ eb.embedding = None
        THEN [InitResults EXCEPT !.error = TRUE,
                                 !.error_message = NoFaceMessage(ea.detected, eb.detected)]
        ELSE IF DotRaises(ea.embedding, eb.embedding)
        THEN [stored EXCEPT !.error = TRUE, !.error_message = MsgException]
        ELSE [stored EXCEPT
                !.baseline_similarity = base,
                !.quality_weighted_similarity = weighted,
                !.verdict = Verdict(DecisionScore(weighted, base, w), t),
                !.confidence = Confidence(weighted, base, w, t)]

AbsR(x) == Rat(Abs(x.n), x.d)

\* C15: swapping the two images does not change the decision: verify(B, A)
\* returns the same baseline_similarity, quality_weighted_similarity, verdict
\* and confidence as verify(A, B), with quality_a and quality_b exchanged
\* (stated here for the calls that return a verdict).
C15_SwapSymmetry ==
    Succeeded =>
        LET swapped == VerifyResult(img_b_bgr, img_a_bgr, use_quality_weighting, threshold)
        IN  /\ results = VerifyResult(img_a_bgr, img_b_bgr, use_quality_weighting, threshold)
            /\ swapped.error = results.error
            /\ swapped.baseline_similarity = results.baseline_similarity
            /\ swapped.quality_weighted_similarity = results.quality_weighted_similarity
            /\ swapped.verdict = results.verdict
            /\ swapped.confidence = results.confidence
            /\ swapped.quality_a = results.quality_b
            /\ swapped.quality_b = results.quality_a

\* C16: quality weighting can only suppress a match: in every result without
\* error |quality_weighted_similarity| <= |baseline_similarity|, and when the
\* verdict with weighting on is true, verify on the same images and threshold
\* with weighting off returns verdict true as well.
C16_WeightingOnlySuppresses ==
    Succeeded =>
        LET unweighted == VerifyResult(img_a_bgr, img_b_bgr, FALSE, threshold)
        IN  /\ results = VerifyResult(img_a_bgr, img_b_bgr, use_quality_weighting, threshold)
            /\ ~Less(AbsR(results.baseline_similarity),
                     AbsR(results.quality_weighted_similarity))
            /\ ((use_quality_weighting /\ results.verdict) =>
                   ~unweighted.error /\ unweighted.verdict)

\* A match with weighting on whose weighted similarity is below the baseline.
C16_Witness ==
    /\ Succeeded /\ use_quality_weighting /\ results.verdict
    /\ Less(results.quality_weighted_similarity, results.baseline_similarity)
    /\ Less(Zero, threshold)

\* C17: in every result without error and with threshold in (0,1], verdict
\* true implies confidence exactly 100, and confidence below 100 implies
\* verdict false.
C17_MatchHasFullConfidence ==
    (Succeeded /\ Less(Zero, threshold)) =>
        /\ (results.verdict => results.confidence = Hundred)
        /\ (Less(results.confidence, Hundred) => ~results.verdict)

\* A match whose score is below 1: the clamp made the confidence 100.
C17_Witness ==
    /\ Succeeded /\ Less(Zero, threshold) /\ results.verdict
    /\ Less(ResultScore, One) /\ results.confidence = Hundred

\* C14: the verifier is initialised once per process, lazily and memoized:
\* nothing is constructed before a session presses Verify with both images,
\* the process constructs AQUAFaceVerifier at most once in total, and every
\* session that has a verifier has that same instance.
C14_VerifierOncePerProcess ==
    /\ constructed <= 1
    /\ ((\A s \in Sessions : session_results[s] = NoResults /\ pc = "idle") => constructed = 0)
    /\ \A s \in Sessions, t \in Sessions :
          (session_verifier[s].instance # 0 /\ session_verifier[t].instance # 0) =>
              session_verifier[s].instance = session_verifier[t].instance

====
